---- MODULE Spec2Model ----
(***************************************************************************)
(* State-machine model of the YouTube live-chat bot.  Two variants of the  *)
(* same single-file script exist in the repository:                        *)
(*   "smart"  src/chatbot.js          hourly response cap, user tracking   *)
(*   "quota"  src/unnamed/part_000    daily quota accounting, stream hours *)
(*                                                                         *)
(* Every callback of the event loop (timer callback, continuation after an *)
(* awaited network call) is one action.  Network calls in flight and       *)
(* pending timers are kept in bags; calls take arbitrarily long and        *)
(* complete in any order, and a pending timer may fire at any later step   *)
(* (its delay is recorded, the clock is not compared with it).  The        *)
(* detection interval may tick at any step after it was installed.         *)
(*                                                                         *)
(* Texts are tuples of one-character strings, so that toLowerCase,         *)
(* includes, startsWith and substring are computed as the script computes  *)
(* them; an emoji is one element written ":name:".  Math.random() is a     *)
(* choice: a rule guarded by it yields every phrase it can return and the  *)
(* fall-through.                                                           *)
(*                                                                         *)
(* Seven behaviours are specified:                                          *)
(*   Spec         from construction: locator, resolver, poller (chat       *)
(*                silent), under racing detection callbacks and polls      *)
(*   SpecStartup  from construction until midnight: the same with one      *)
(*                detection callback at a time                             *)
(*   SpecSession  from an established session: the same, near the hourly   *)
(*                and daily caps and across midnight                       *)
(*   SpecChat     from an established session: poller, response engine     *)
(*                and sender with chat traffic                             *)
(*   SpecModes    the same with greetings and a mode switch in the chat    *)
(*   SpecLive     smart variant from construction on, the channel live,    *)
(*                with fairness                                            *)
(*   SpecResume   quota variant near the ceiling before midnight, the      *)
(*                channel live, with fairness                              *)
(***************************************************************************)
EXTENDS Integers, Sequences, FiniteSets, Bags, TLC

(* ------------------------------ bounds -------------------------------- *)
\* Spec: network calls and timers outstanding at once, clock steps
MaxDetect == 2
MaxPolls == 2
MaxClock == 1
\* SpecSession, SpecChat: clock steps
MaxMidClock == 2
\* SpecSession: network calls and timers outstanding at once
MaxSessionDetect == 1
MaxSessionPolls == 1
\* SpecChat: messages per page, replies outstanding at once
MaxPage == 1
MaxReplies == 1
\* the daily counter is followed up to MaxLowQuota and from NearCapQuota on
MaxLowQuota == 220
NearCapQuota == 9300

(* ------------------------- program constants -------------------------- *)
HourMs == 3600000
DayMs == 86400000
SmartGapMs == 5000
QuotaGapMs == 15000
QuotaThreshold == 9500
DailyQuotaLimit == 10000
SearchCost == 100
ChatIdCost == 1
PollCost == 5
SendCost == 50
DefaultMaxResponses == 20
SmartDefaultInterval == 5000
SmartMinInterval == 2000
SmartRetryDelay == 10000
QuotaDefaultInterval == 10000
QuotaMinInterval == 8000
QuotaRetryDelay == 15000

\* the clock advances in steps of the smart variant's reply gap and starts
\* two steps before midnight
StepMs == SmartGapMs
StartTime == DayMs - 2 * StepMs

NULL == "null"
BotName == "GameBuddy"
Videos == {"v1", "v2"}
Tokens == {"t1", "t2"}
ChatOf(v) == IF v = "v1" THEN "c1" ELSE "c2"

VARIABLES
    variant, ownerUsername, oauthTokens, streamingHours,   \* configuration
    now,                                      \* wall clock, ms since midnight of day 0
    started,                                  \* startContinuousMonitoring was called
    videoId, liveChatId, nextPageToken, isRunning,
    lastResponseTime, responseCount, maxResponsesPerHour, hourlyReset, chatHistory,
    dailyQuotaUsed, quotaResetTime,
    searches,     \* bag of search calls in flight, by caller ("initial" / "tick")
    lookups,      \* bag of videos.list calls in flight, by requested video id
    fetches,      \* bag of liveChatMessages.list calls in flight
    pollTimers,   \* bag of pending setTimeout(pollMessages) timers
    replyTimers,  \* bag of pending setTimeout(sendMessage) timers
    inserts       \* bag of liveChatMessages.insert calls in flight

config == <<variant, ownerUsername, oauthTokens, streamingHours>>
vars == <<variant, ownerUsername, oauthTokens, streamingHours, now, started,
          videoId, liveChatId, nextPageToken, isRunning,
          lastResponseTime, responseCount, maxResponsesPerHour, hourlyReset, chatHistory,
          dailyQuotaUsed, quotaResetTime,
          searches, lookups, fetches, pollTimers, replyTimers, inserts>>

Authors == {BotName, "Owner", "Viewer"}
Chatters == Authors \ {BotName}
Hints == {0, 1000}

(* The mutable fields of the bot object together with the outstanding      *)
(* network calls and timers, as one record, so that the methods below can  *)
(* be composed the way the code calls them.                                *)
Cur == [videoId |-> videoId, liveChatId |-> liveChatId,
        nextPageToken |-> nextPageToken, isRunning |-> isRunning,
        lastResponseTime |-> lastResponseTime, responseCount |-> responseCount,
        maxResponsesPerHour |-> maxResponsesPerHour, hourlyReset |-> hourlyReset,
        chatHistory |-> chatHistory,
        dailyQuotaUsed |-> dailyQuotaUsed, quotaResetTime |-> quotaResetTime,
        searches |-> searches, lookups |-> lookups, fetches |-> fetches,
        pollTimers |-> pollTimers, replyTimers |-> replyTimers, inserts |-> inserts]

Apply(s) ==
    /\ videoId' = s.videoId
    /\ liveChatId' = s.liveChatId
    /\ nextPageToken' = s.nextPageToken
    /\ isRunning' = s.isRunning
    /\ lastResponseTime' = s.lastResponseTime
    /\ responseCount' = s.responseCount
    /\ maxResponsesPerHour' = s.maxResponsesPerHour
    /\ hourlyReset' = s.hourlyReset
    /\ chatHistory' = s.chatHistory
    /\ dailyQuotaUsed' = s.dailyQuotaUsed
    /\ quotaResetTime' = s.quotaResetTime
    /\ searches' = s.searches
    /\ lookups' = s.lookups
    /\ fetches' = s.fetches
    /\ pollTimers' = s.pollTimers
    /\ replyTimers' = s.replyTimers
    /\ inserts' = s.inserts

One(x) == SetToBag({x})
NoHistory == [a \in Chatters |-> 0]

(* ------------------------- quota governor (quota) --------------------- *)
\* a reset time computed as the midnight that has just passed
getNextQuotaResetToday == (now \div DayMs) * DayMs

getNextQuotaReset == ((now \div DayMs) + 1) * DayMs

\* the test isStreamingTime makes on the hour of the day
inWindow(hour, start, end) ==
    IF start <= end THEN hour >= start /\ hour <= end
                    ELSE hour >= start \/ hour <= end

isStreamingTime ==
    inWindow((now \div HourMs) % 24, streamingHours.start, streamingHours.end)

\* a governor that never starts a new day
QuotaAfterResetNever(s) == s

QuotaAfterReset(s) ==
    IF now >= s.quotaResetTime
    THEN [s EXCEPT !.dailyQuotaUsed = 0, !.quotaResetTime = getNextQuotaReset]
    ELSE s

\* a governor that compares the counter alone, forgetting the cost of the call
QuotaAllowsIgnoringCost(s, cost) == s.dailyQuotaUsed <= QuotaThreshold

QuotaAllows(s, cost) == (s.dailyQuotaUsed + cost) <= QuotaThreshold

\* canMakeApiCall(cost): the state after the call and the value returned
canMakeApiCall(s, cost) ==
    LET r == QuotaAfterReset(s) IN [s |-> r, ok |-> QuotaAllows(r, cost)]

trackQuotaUsage(s, cost) == [s EXCEPT !.dailyQuotaUsed = @ + cost]

(* ------------------------- hourly counter (smart) --------------------- *)
resetHourlyCounter(s) ==
    IF now - s.hourlyReset > HourMs
    THEN [s EXCEPT !.responseCount = 0, !.hourlyReset = now]
    ELSE s

(* ------------------------------ session ------------------------------- *)
SmartCleanup(s) ==
    [s EXCEPT !.videoId = NULL, !.liveChatId = NULL, !.nextPageToken = NULL,
              !.isRunning = FALSE, !.responseCount = 0, !.chatHistory = NoHistory]

QuotaCleanup(s) ==
    [s EXCEPT !.videoId = NULL, !.liveChatId = NULL, !.nextPageToken = NULL,
              !.isRunning = FALSE]

cleanup(s) == IF variant = "smart" THEN SmartCleanup(s) ELSE QuotaCleanup(s)

(* ------------------------------- texts -------------------------------- *)
(* Keywords and commands that the response rules compare against. *)
CmdStatus ==
    <<"!", "s", "t", "a", "t", "u", "s">>

CmdPing ==
    <<"!", "p", "i", "n", "g">>

CmdSay ==
    <<"!", "s", "a", "y", " ">>

CmdQuiet ==
    <<"!", "q", "u", "i", "e", "t">>

CmdActive ==
    <<"!", "a", "c", "t", "i", "v", "e">>

CmdNormal ==
    <<"!", "n", "o", "r", "m", "a", "l">>

CmdQuota ==
    <<"!", "q", "u", "o", "t", "a">>

GreetingWords ==
    << <<"h", "e", "l", "l", "o">>,
       <<"h", "i">>,
       <<"h", "e", "y">>,
       <<"s", "u", "p">>,
       <<"w", "h", "a", "t", "'", "s", " ", "u", "p">>,
       <<"g", "o", "o", "d", " ", "m", "o", "r", "n", "i", "n", "g">>,
       <<"g", "o", "o", "d", " ", "e", "v", "e", "n", "i", "n", "g">> >>

AmazingWords ==
    << <<"a", "m", "a", "z", "i", "n", "g">>,
       <<"i", "n", "c", "r", "e", "d", "i", "b", "l", "e">>,
       <<"i", "n", "s", "a", "n", "e">> >>

FailWords ==
    << <<"f", "a", "i", "l">>,
       <<"d", "i", "e", "d">>,
       <<"r", "i", "p">> >>

ClutchWords ==
    << <<"c", "l", "u", "t", "c", "h">>,
       <<"c", "l", "o", "s", "e", " ", "c", "a", "l", "l">> >>

FunnyWords ==
    << <<"f", "u", "n", "n", "y">>,
       <<"l", "o", "l">>,
       <<"h", "a", "h", "a">> >>

KwHowAreYou ==
    <<"h", "o", "w", " ", "a", "r", "e", " ", "y", "o", "u">>

KwWhatGame ==
    <<"w", "h", "a", "t", " ", "g", "a", "m", "e">>

KwBot ==
    <<"b", "o", "t">>

KwAreYou ==
    <<"a", "r", "e", " ", "y", "o", "u">>

KwReal ==
    <<"r", "e", "a", "l">>

QuotaGreetingWords ==
    << <<"g", "a", "m", "e", "b", "u", "d", "d", "y">>,
       <<"h", "e", "l", "l", "o", " ", "b", "o", "t">>,
       <<"h", "i", " ", "b", "o", "t">> >>

QuotaAmazingWords ==
    << <<"a", "m", "a", "z", "i", "n", "g", " ", "p", "l", "a", "y">>,
       <<"i", "n", "s", "a", "n", "e", " ", "p", "l", "a", "y">>,
       <<"i", "n", "c", "r", "e", "d", "i", "b", "l", "e", " ", "p", "l", "a", "y">> >>

QuotaFailWords ==
    << <<"e", "p", "i", "c", " ", "f", "a", "i", "l">>,
       <<"b", "i", "g", " ", "f", "a", "i", "l">> >>

QuotaClutchWords ==
    << <<"c", "l", "u", "t", "c", "h", " ", "p", "l", "a", "y">>,
       <<"c", "l", "u", "t", "c", "h", " ", "w", "i", "n">> >>

(* Phrase sets and fixed answers of the smart variant (src/chatbot.js). *)
SmartGreetings ==
    << <<"H", "e", "y", " ", "t", "h", "e", "r", "e", "!", " ", "W", "e", "l", "c",
        "o", "m", "e", " ", "t", "o", " ", "t", "h", "e", " ", "s", "t", "r", "e",
        "a", "m", "!", " ", ":video_game:">>,
       <<"W", "h", "a", "t", "'", "s", " ", "u", "p", "!", " ", "G", "r", "e", "a",
        "t", " ", "t", "o", " ", "s", "e", "e", " ", "y", "o", "u", " ", "h", "e",
        "r", "e", "!", " ", ":fire:">>,
       <<"W", "e", "l", "c", "o", "m", "e", " ", "t", "o", " ", "t", "h", "e", " ",
        "p", "a", "r", "t", "y", "!", " ", ":rocket:">>,
       <<"H", "e", "y", "!", " ", "T", "h", "a", "n", "k", "s", " ", "f", "o", "r",
        " ", "s", "t", "o", "p", "p", "i", "n", "g", " ", "b", "y", "!", " ",
        ":smiling_face_with_smiling_eyes:">> >>

SmartAmazing ==
    << <<"T", "h", "a", "t", " ", "w", "a", "s", " ", "i", "n", "c", "r", "e", "d",
        "i", "b", "l", "e", "!", " ", ":fire:">>,
       <<"A", "M", "A", "Z", "I", "N", "G", " ", "p", "l", "a", "y", "!">>,
       <<"N", "o", " ", "w", "a", "y", "!", " ", "H", "o", "w", "?", "!", " ",
        ":shocked_face_with_exploding_head:">> >>

SmartFail ==
    << <<"O", "u", "c", "h", "!", " ", ":smiling_face_with_open_mouth_and_cold_sweat:">>,
       <<"W", "e", "'", "v", "e", " ", "a", "l", "l", " ", "b", "e", "e", "n", " ",
        "t", "h", "e", "r", "e", "!">>,
       <<"N", "e", "x", "t", " ", "t", "i", "m", "e", "!", " ", ":flexed_biceps:">> >>

SmartClutch ==
    << <<"C", "L", "U", "T", "C", "H", "!", " ", ":fire:">>,
       <<"T", "h", "a", "t", " ", "w", "a", "s", " ", "c", "l", "o", "s", "e", "!">>,
       <<"H", "e", "a", "r", "t", " ", "a", "t", "t", "a", "c", "k", " ", "m", "o",
        "m", "e", "n", "t", "!", " ", ":face_screaming_in_fear:">> >>

SmartFunny ==
    << <<"L", "M", "A", "O", " ", ":face_with_tears_of_joy:">>,
       <<"T", "h", "a", "t", "'", "s", " ", "h", "i", "l", "a", "r", "i", "o", "u",
        "s", "!">>,
       <<"L", "O", "L", "!", " ", ":rolling_on_the_floor_laughing:">> >>

SmartEngagements ==
    << <<"T", "h", "i", "s", " ", "s", "t", "r", "e", "a", "m", " ", "i", "s", " ",
        "a", "w", "e", "s", "o", "m", "e", "!", " ", ":fire:">>,
       <<"G", "r", "e", "a", "t", " ", "c", "o", "m", "m", "u", "n", "i", "t", "y",
        " ", "h", "e", "r", "e", "!", " ", ":heavy_black_heart:">>,
       <<"L", "o", "v", "i", "n", "g", " ", "t", "h", "e", " ", "g", "a", "m", "e",
        "p", "l", "a", "y", "!", " ", ":video_game:">> >>

SmartHowAreYou ==
    <<"I", "'", "m", " ", "d", "o", "i", "n", "g", " ", "g", "r", "e", "a", "t", "!",
      " ", "T", "h", "a", "n", "k", "s", " ", "f", "o", "r", " ", "a", "s", "k", "i",
      "n", "g", "!", " ", "H", "o", "w", " ", "a", "r", "e", " ", "y", "o", "u", " ",
      "e", "n", "j", "o", "y", "i", "n", "g", " ", "t", "h", "e", " ", "s", "t", "r",
      "e", "a", "m", "?", " ", ":smiling_face_with_smiling_eyes:">>

SmartWhatGame ==
    <<"T", "h", "i", "s", " ", "g", "a", "m", "e", " ", "l", "o", "o", "k", "s", " ",
      "a", "m", "a", "z", "i", "n", "g", "!", " ", "I", " ", "l", "o", "v", "e", " ",
      "w", "a", "t", "c", "h", "i", "n", "g", " ", "t", "h", "e", "s", "e", " ", "s",
      "t", "r", "e", "a", "m", "s", "!", " ", ":video_game:">>

SmartBotAnswer ==
    <<"Y", "e", "p", ",", " ", "I", "'", "m", " ", "a", " ", "b", "o", "t", "!", " ",
      ":robot_face:", " ", "B", "u", "t", " ", "I", "'", "m", " ", "h", "e", "r",
      "e", " ", "t", "o", " ", "h", "a", "n", "g", " ", "o", "u", "t", " ", "a", "n",
      "d", " ", "e", "n", "j", "o", "y", " ", "t", "h", "e", " ", "s", "t", "r", "e",
      "a", "m", " ", "w", "i", "t", "h", " ", "e", "v", "e", "r", "y", "o", "n", "e",
      "!">>

Pong ==
    <<":table_tennis_paddle_and_ball:", " ", "P", "o", "n", "g", "!">>

QuietReply ==
    <<":robot_face:", " ", "S", "e", "t", " ", "t", "o", " ", "q", "u", "i", "e",
      "t", " ", "m", "o", "d", "e", " ", "(", "5", " ", "r", "e", "s", "p", "o", "n",
      "s", "e", "s", "/", "h", "o", "u", "r", ")">>

ActiveReply ==
    <<":robot_face:", " ", "S", "e", "t", " ", "t", "o", " ", "a", "c", "t", "i",
      "v", "e", " ", "m", "o", "d", "e", " ", "(", "3", "0", " ", "r", "e", "s", "p",
      "o", "n", "s", "e", "s", "/", "h", "o", "u", "r", ")">>

NormalReply ==
    <<":robot_face:", " ", "S", "e", "t", " ", "t", "o", " ", "n", "o", "r", "m",
      "a", "l", " ", "m", "o", "d", "e", " ", "(", "2", "0", " ", "r", "e", "s", "p",
      "o", "n", "s", "e", "s", "/", "h", "o", "u", "r", ")">>

(* Phrase sets and fixed answers of the quota variant (src/unnamed/part_000). *)
QuotaGreetings ==
    << <<"H", "e", "y", " ", "t", "h", "e", "r", "e", "!", " ", "W", "e", "l", "c",
        "o", "m", "e", " ", "t", "o", " ", "t", "h", "e", " ", "s", "t", "r", "e",
        "a", "m", "!", " ", ":video_game:">>,
       <<"W", "h", "a", "t", "'", "s", " ", "u", "p", ",", " ", "g", "a", "m", "e",
        "r", "!", " ", "R", "e", "a", "d", "y", " ", "f", "o", "r", " ", "s", "o",
        "m", "e", " ", "e", "p", "i", "c", " ", "g", "a", "m", "e", "p", "l", "a",
        "y", "?">>,
       <<"W", "e", "l", "c", "o", "m", "e", " ", "t", "o", " ", "t", "h", "e", " ",
        "p", "a", "r", "t", "y", "!", " ", "T", "h", "i", "s", " ", "i", "s", " ",
        "g", "o", "n", "n", "a", " ", "b", "e", " ", "a", "w", "e", "s", "o", "m",
        "e", "!", " ", ":fire:">>,
       <<"H", "e", "y", "!", " ", "G", "r", "e", "a", "t", " ", "t", "o", " ", "s",
        "e", "e", " ", "y", "o", "u", " ", "h", "e", "r", "e", "!", " ", "L", "e",
        "t", "'", "s", " ", "h", "a", "v", "e", " ", "s", "o", "m", "e", " ", "f",
        "u", "n", "!">>,
       <<"W", "e", "l", "c", "o", "m", "e", " ", "a", "b", "o", "a", "r", "d", "!",
        " ", "H", "o", "p", "e", " ", "y", "o", "u", " ", "e", "n", "j", "o", "y",
        " ", "t", "h", "e", " ", "s", "t", "r", "e", "a", "m", "!", " ", ":rocket:">> >>

QuotaAmazing ==
    << <<"T", "h", "a", "t", " ", "w", "a", "s", " ", "i", "n", "c", "r", "e", "d",
        "i", "b", "l", "e", "!", " ", ":fire:">>,
       <<"N", "o", " ", "w", "a", "y", "!", " ", "H", "o", "w", " ", "d", "i", "d",
        " ", "y", "o", "u", " ", "d", "o", " ", "t", "h", "a", "t", "?", "!">>,
       <<"A", "M", "A", "Z", "I", "N", "G", " ", "p", "l", "a", "y", "!">>,
       <<"A", "b", "s", "o", "l", "u", "t", "e", "l", "y", " ", "i", "n", "s", "a",
        "n", "e", "!", " ", ":shocked_face_with_exploding_head:">>,
       <<"P", "r", "o", " ", "g", "a", "m", "e", "r", " ", "m", "o", "v", "e", " ",
        "r", "i", "g", "h", "t", " ", "t", "h", "e", "r", "e", "!">> >>

QuotaFail ==
    << <<"O", "u", "c", "h", "!", " ", "T", "h", "a", "t", " ", "h", "u", "r", "t",
        " ", "t", "o", " ", "w", "a", "t", "c", "h", " ",
        ":smiling_face_with_open_mouth_and_cold_sweat:">>,
       <<"W", "e", "'", "v", "e", " ", "a", "l", "l", " ", "b", "e", "e", "n", " ",
        "t", "h", "e", "r", "e", "!">>,
       <<"B", "e", "t", "t", "e", "r", " ", "l", "u", "c", "k", " ", "n", "e", "x",
        "t", " ", "t", "i", "m", "e", "!">>,
       <<"F", " ", "i", "n", " ", "t", "h", "e", " ", "c", "h", "a", "t">>,
       <<"D", "o", "n", "'", "t", " ", "w", "o", "r", "r", "y", ",", " ", "y", "o",
        "u", " ", "g", "o", "t", " ", "t", "h", "i", "s", " ", "n", "e", "x", "t",
        " ", "t", "i", "m", "e", "!">> >>

QuotaClutch ==
    << <<"C", "L", "U", "T", "C", "H", "!", " ", ":fire:">>,
       <<"T", "h", "a", "t", " ", "w", "a", "s", " ", "s", "o", " ", "c", "l", "o",
        "s", "e", "!">>,
       <<"H", "e", "a", "r", "t", " ", "a", "t", "t", "a", "c", "k", " ", "m", "o",
        "m", "e", "n", "t", " ", "r", "i", "g", "h", "t", " ", "t", "h", "e", "r",
        "e", "!">>,
       <<"H", "o", "w", " ", "d", "i", "d", " ", "y", "o", "u", " ", "p", "u", "l",
        "l", " ", "t", "h", "a", "t", " ", "o", "f", "f", "?", "!">>,
       <<"I", "n", "s", "a", "n", "e", " ", "c", "l", "u", "t", "c", "h", " ", "p",
        "l", "a", "y", "!">> >>

QuotaEngagements ==
    << <<"T", "h", "i", "s", " ", "s", "t", "r", "e", "a", "m", " ", "i", "s", " ",
        "s", "o", " ", "g", "o", "o", "d", "!", " ", ":fire:">>,
       <<"G", "r", "e", "a", "t", " ", "g", "a", "m", "e", "p", "l", "a", "y", "!",
        " ", ":video_game:">>,
       <<"L", "o", "v", "e", " ", "t", "h", "e", " ", "e", "n", "e", "r", "g", "y",
        " ", "i", "n", " ", "c", "h", "a", "t", "!", " ", ":heavy_black_heart:">> >>

QuotaBotAnswer ==
    <<"Y", "e", "p", ",", " ", "I", "'", "m", " ", "a", " ", "b", "o", "t", "!", " ",
      ":robot_face:", " ", "H", "e", "r", "e", " ", "t", "o", " ", "e", "n", "j",
      "o", "y", " ", "t", "h", "e", " ", "s", "t", "r", "e", "a", "m", " ", "w", "i",
      "t", "h", " ", "e", "v", "e", "r", "y", "o", "n", "e", "!">>

(* Chat texts the viewers send in the model. *)
TxStatus ==
    <<"!", "s", "t", "a", "t", "u", "s">>

TxPingUpper ==
    <<"!", "P", "I", "N", "G">>

TxPing ==
    <<"!", "p", "i", "n", "g">>

TxSayHi ==
    <<"!", "s", "a", "y", " ", "H", "i">>

TxQuiet ==
    <<"!", "q", "u", "i", "e", "t">>

TxActive ==
    <<"!", "a", "c", "t", "i", "v", "e">>

TxNormal ==
    <<"!", "n", "o", "r", "m", "a", "l">>

TxQuota ==
    <<"!", "q", "u", "o", "t", "a">>

TxHelloBot ==
    <<"h", "e", "l", "l", "o", " ", "b", "o", "t">>

TxLol ==
    <<"l", "o", "l">>

TxWhatGame ==
    <<"w", "h", "a", "t", " ", "g", "a", "m", "e">>

TxGG ==
    <<"g", "g">>

TxBotReal ==
    <<"i", "s", " ", "t", "h", "e", " ", "b", "o", "t", " ", "r", "e", "a", "l">>

TxSayBot ==
    <<"!", "s", "a", "y", " ", "i", "s", " ", "t", "h", "e", " ", "b", "o",
      "t", " ", "r", "e", "a", "l">>

(* Error messages of a failed poll call, and the words the poller looks for. *)
KwDisabled ==
    <<"d", "i", "s", "a", "b", "l", "e", "d">>

KwNotFound ==
    <<"n", "o", "t", " ", "f", "o", "u", "n", "d">>

ErrChatDisabled ==
    <<"T", "h", "e", " ", "l", "i", "v", "e", " ", "c", "h", "a", "t", " ", "i", "s",
      " ", "d", "i", "s", "a", "b", "l", "e", "d">>

ErrChatNotFound ==
    <<"l", "i", "v", "e", " ", "c", "h", "a", "t", " ", "n", "o", "t", " ", "f", "o",
      "u", "n", "d">>

ErrNotFoundUpper ==
    <<"N", "o", "t", " ", "F", "o", "u", "n", "d">>

ErrHangUp ==
    <<"s", "o", "c", "k", "e", "t", " ", "h", "a", "n", "g", " ", "u", "p">>

ErrorMessages == {ErrChatDisabled, ErrChatNotFound, ErrNotFoundUpper, ErrHangUp}

StatusPrefix == <<"S", "t", "a", "t", "u", "s">>
QuotaPrefix == <<"Q", "u", "o", "t", "a">>

Texts == {TxStatus, TxPing, TxPingUpper, TxSayHi, TxQuiet, TxActive, TxNormal, TxQuota,
          TxHelloBot, TxLol, TxWhatGame, TxGG, TxBotReal, TxSayBot}
Messages ==
    [author : Chatters, text : Texts] \cup {[author |-> BotName, text |-> TxGG]}

(* ------------------------- string primitives -------------------------- *)
LowerChar(c) ==
    CASE c = "A" -> "a" [] c = "B" -> "b" [] c = "C" -> "c" [] c = "D" -> "d"
      [] c = "E" -> "e" [] c = "F" -> "f" [] c = "G" -> "g" [] c = "H" -> "h"
      [] c = "I" -> "i" [] c = "J" -> "j" [] c = "K" -> "k" [] c = "L" -> "l"
      [] c = "M" -> "m" [] c = "N" -> "n" [] c = "O" -> "o" [] c = "P" -> "p"
      [] c = "Q" -> "q" [] c = "R" -> "r" [] c = "S" -> "s" [] c = "T" -> "t"
      [] c = "U" -> "u" [] c = "V" -> "v" [] c = "W" -> "w" [] c = "X" -> "x"
      [] c = "Y" -> "y" [] c = "Z" -> "z" [] OTHER -> c

toLowerCase(t) == [i \in 1..Len(t) |-> LowerChar(t[i])]

includes(t, k) ==
    \E i \in 1..(Len(t) - Len(k) + 1) : SubSeq(t, i, i + Len(k) - 1) = k

startsWith(t, k) == Len(t) >= Len(k) /\ SubSeq(t, 1, Len(k)) = k

substring(t, from) == SubSeq(t, from + 1, Len(t))

includesAny(t, words) == \E i \in 1..Len(words) : includes(t, words[i])

(* ------------------------- response engine ---------------------------- *)
\* A reply: its text and, for the two templated replies, the interpolated values.
Plain(t) == [text |-> t, args |-> <<>>]
NoResponse == [rule |-> "none", response |-> Plain(<<>>)]
\* `if (response)`: null and the empty string are both falsy
Truthy(r) == r.text # <<>>

Phrases(rule, set) == {[rule |-> rule, response |-> Plain(set[i])] : i \in 1..Len(set)}
Fixed(rule, t) == {[rule |-> rule, response |-> Plain(t)]}
AdminRules == {"status", "quota", "ping", "say", "quiet", "active", "normal"}

trackUser(s, author) ==
    [s EXCEPT !.chatHistory[author] = IF @ = 0 THEN 1 ELSE 2]

containsGreeting(text) == includesAny(text, GreetingWords)

\* an admin branch that forgets to compare the author with the owner
SmartAdminForAnyone(s, text, author) ==
    IF text = CmdStatus
    THEN {[s |-> s, rule |-> "status",
           response |-> [text |-> StatusPrefix,
                         args |-> <<IF s.videoId = NULL THEN "none" ELSE s.videoId,
                                    s.responseCount, s.maxResponsesPerHour>>]]}
    ELSE IF text = CmdPing THEN {[s |-> s, rule |-> "ping", response |-> Plain(Pong)]}
    ELSE IF startsWith(text, CmdSay)
         THEN {[s |-> s, rule |-> "say", response |-> Plain(substring(text, 5))]}
    ELSE IF text = CmdQuiet
         THEN {[s |-> [s EXCEPT !.maxResponsesPerHour = 5], rule |-> "quiet",
                response |-> Plain(QuietReply)]}
    ELSE IF text = CmdActive
         THEN {[s |-> [s EXCEPT !.maxResponsesPerHour = 30], rule |-> "active",
                response |-> Plain(ActiveReply)]}
    ELSE IF text = CmdNormal
         THEN {[s |-> [s EXCEPT !.maxResponsesPerHour = 20], rule |-> "normal",
                response |-> Plain(NormalReply)]}
    ELSE {}

\* The admin branch: the outcomes <<state, reply>> it returns, {} when it falls through
SmartAdmin(s, text, author) ==
    IF author # ownerUsername THEN {}
    ELSE IF text = CmdStatus
         THEN {[s |-> s, rule |-> "status",
                response |-> [text |-> StatusPrefix,
                              args |-> <<IF s.videoId = NULL THEN "none" ELSE s.videoId,
                                         s.responseCount, s.maxResponsesPerHour>>]]}
    ELSE IF text = CmdPing THEN {[s |-> s, rule |-> "ping", response |-> Plain(Pong)]}
    ELSE IF startsWith(text, CmdSay)
         THEN {[s |-> s, rule |-> "say", response |-> Plain(substring(text, 5))]}
    ELSE IF text = CmdQuiet
         THEN {[s |-> [s EXCEPT !.maxResponsesPerHour = 5], rule |-> "quiet",
                response |-> Plain(QuietReply)]}
    ELSE IF text = CmdActive
         THEN {[s |-> [s EXCEPT !.maxResponsesPerHour = 30], rule |-> "active",
                response |-> Plain(ActiveReply)]}
    ELSE IF text = CmdNormal
         THEN {[s |-> [s EXCEPT !.maxResponsesPerHour = 20], rule |-> "normal",
                response |-> Plain(NormalReply)]}
    ELSE {}

\* Math.random() < p either holds or not: a keyword rule that matches may
\* return one of its phrases or fall through to the rules after it.
SmartAmbient == Phrases("ambient", SmartEngagements) \cup {NoResponse}

\* an FAQ rule that gives the game answer to every message
SmartFaqAnswersAll(text) == Fixed("faq", SmartWhatGame)

SmartFaq(text) ==
    IF includes(text, KwHowAreYou) THEN Fixed("faq", SmartHowAreYou)
    ELSE IF includes(text, KwWhatGame) THEN Fixed("faq", SmartWhatGame)
    ELSE IF includes(text, KwBot) /\ (includes(text, KwAreYou) \/ includes(text, KwReal))
         THEN Fixed("faq", SmartBotAnswer)
    ELSE SmartAmbient

SmartFunnyRule(text) ==
    (IF includesAny(text, FunnyWords) THEN Phrases("funny", SmartFunny) ELSE {})
        \cup SmartFaq(text)

SmartClutchRule(text) ==
    (IF includesAny(text, ClutchWords) THEN Phrases("clutch", SmartClutch) ELSE {})
        \cup SmartFunnyRule(text)

SmartFailRule(text) ==
    (IF includesAny(text, FailWords) THEN Phrases("fail", SmartFail) ELSE {})
        \cup SmartClutchRule(text)

SmartAmazingRule(text) ==
    (IF includesAny(text, AmazingWords) THEN Phrases("amazing", SmartAmazing) ELSE {})
        \cup SmartFailRule(text)

\* toLowerCase and the rules that read nothing but the text, tabulated over
\* the texts in use
Lower == [t \in Texts |-> toLowerCase(t)]
LowerTexts == {Lower[t] : t \in Texts}
Greets == [t \in LowerTexts |-> containsGreeting(t)]
SmartKeywordReplies == [t \in LowerTexts |-> SmartAmazingRule(t)]

\* a greeting rule that does not ask whether the author is new
generateSmartResponseGreetsAgain(s, text, author) ==
    LET admin == SmartAdmin(s, text, author)
        rest == IF Greets[text]
                THEN Phrases("greeting", SmartGreetings)
                ELSE SmartKeywordReplies[text]
    IN IF admin # {} THEN admin
       ELSE {[s |-> s, rule |-> o.rule, response |-> o.response] : o \in rest}

\* a rule chain that looks for a first-time greeting before the admin commands
generateSmartResponseGreetingFirst(s, text, author) ==
    LET admin == SmartAdmin(s, text, author)
    IN IF Greets[text] /\ s.chatHistory[author] = 1
       THEN {[s |-> s, rule |-> o.rule, response |-> o.response] :
                 o \in Phrases("greeting", SmartGreetings)}
       ELSE IF admin # {} THEN admin
       ELSE {[s |-> s, rule |-> o.rule, response |-> o.response] :
                 o \in SmartKeywordReplies[text]}

generateSmartResponse(s, text, author) ==
    LET admin == SmartAdmin(s, text, author)
        rest == IF Greets[text] /\ s.chatHistory[author] = 1
                THEN Phrases("greeting", SmartGreetings)
                ELSE SmartKeywordReplies[text]
    IN IF admin # {} THEN admin
       ELSE {[s |-> s, rule |-> o.rule, response |-> o.response] : o \in rest}

\* an admin branch without the !ping command
QuotaAdminWithoutPing(s, text, author) ==
    IF author # ownerUsername THEN {}
    ELSE IF text = CmdStatus
         THEN {[s |-> s, rule |-> "status",
                response |-> [text |-> StatusPrefix,
                              args |-> <<IF s.videoId = NULL THEN "none" ELSE s.videoId,
                                         s.dailyQuotaUsed, DailyQuotaLimit>>]]}
    ELSE IF text = CmdQuota
         THEN {[s |-> s, rule |-> "quota",
                response |-> [text |-> QuotaPrefix,
                              args |-> <<"resets", s.dailyQuotaUsed, s.quotaResetTime>>]]}
    ELSE IF startsWith(text, CmdSay)
         THEN {[s |-> s, rule |-> "say", response |-> Plain(substring(text, 5))]}
    ELSE {}

QuotaAdmin(s, text, author) ==
    IF author # ownerUsername THEN {}
    ELSE IF text = CmdStatus
         THEN {[s |-> s, rule |-> "status",
                response |-> [text |-> StatusPrefix,
                              args |-> <<IF s.videoId = NULL THEN "none" ELSE s.videoId,
                                         s.dailyQuotaUsed, DailyQuotaLimit>>]]}
    ELSE IF text = CmdQuota
         THEN {[s |-> s, rule |-> "quota",
                response |-> [text |-> QuotaPrefix,
                              args |-> <<"resets", s.dailyQuotaUsed, s.quotaResetTime>>]]}
    ELSE IF text = CmdPing THEN {[s |-> s, rule |-> "ping", response |-> Plain(Pong)]}
    ELSE IF startsWith(text, CmdSay)
         THEN {[s |-> s, rule |-> "say", response |-> Plain(substring(text, 5))]}
    ELSE {}

QuotaRules(text) ==
    IF includesAny(text, QuotaGreetingWords) THEN Phrases("greeting", QuotaGreetings)
    ELSE IF includesAny(text, QuotaAmazingWords) THEN Phrases("amazing", QuotaAmazing)
    ELSE IF includesAny(text, QuotaFailWords) THEN Phrases("fail", QuotaFail)
    ELSE IF includesAny(text, QuotaClutchWords) THEN Phrases("clutch", QuotaClutch)
    ELSE IF includes(text, KwBot) /\ (includes(text, KwAreYou) \/ includes(text, KwReal))
         THEN Fixed("faq", QuotaBotAnswer)
    ELSE Phrases("ambient", QuotaEngagements) \cup {NoResponse}

QuotaReplies == [t \in LowerTexts |-> QuotaRules(t)]

generateResponse(s, text, author) ==
    LET admin == QuotaAdmin(s, text, author)
    IN IF admin # {} THEN admin
       ELSE {[s |-> s, rule |-> o.rule, response |-> o.response] : o \in QuotaReplies[text]}

\* setTimeout(() => this.sendMessage(response), delay); rule, author and chat
\* record where the reply came from and are not read by the program.
ScheduleReply(s, o, author) ==
    [s EXCEPT !.replyTimers = @ (+) One([response |-> o.response, rule |-> o.rule,
                                        author |-> author, chat |-> s.liveChatId])]

\* a processMessage whose cap test is `>` where the code has `>=`
SmartProcessMessageLateCap(s, message) ==
    LET author == message.author
        textLower == Lower[message.text]
        s1 == resetHourlyCounter(trackUser(s, author))
    IN IF author = BotName THEN {s}
       ELSE IF s1.responseCount > s1.maxResponsesPerHour THEN {s1}
       ELSE IF now - s1.lastResponseTime < SmartGapMs THEN {s1}
       ELSE {IF Truthy(o.response)
             THEN ScheduleReply([o.s EXCEPT !.lastResponseTime = now,
                                            !.responseCount = @ + 1], o, author)
             ELSE o.s : o \in generateSmartResponse(s1, textLower, author)}

\* a processMessage that schedules replies without counting them
SmartProcessMessageUncounted(s, message) ==
    LET author == message.author
        textLower == Lower[message.text]
        s1 == resetHourlyCounter(trackUser(s, author))
    IN IF author = BotName THEN {s}
       ELSE IF s1.responseCount >= s1.maxResponsesPerHour THEN {s1}
       ELSE IF now - s1.lastResponseTime < SmartGapMs THEN {s1}
       ELSE {IF Truthy(o.response)
             THEN ScheduleReply([o.s EXCEPT !.lastResponseTime = now], o, author)
             ELSE o.s : o \in generateSmartResponse(s1, textLower, author)}

\* a processMessage without the test of the time since the last reply
SmartProcessMessageNoGap(s, message) ==
    LET author == message.author
        textLower == Lower[message.text]
        s1 == resetHourlyCounter(trackUser(s, author))
    IN IF author = BotName THEN {s}
       ELSE IF s1.responseCount >= s1.maxResponsesPerHour THEN {s1}
       ELSE {IF Truthy(o.response)
             THEN ScheduleReply([o.s EXCEPT !.lastResponseTime = now,
                                            !.responseCount = @ + 1], o, author)
             ELSE o.s : o \in generateSmartResponse(s1, textLower, author)}

\* processMessage: the set of states it can end in
SmartProcessMessage(s, message) ==
    LET author == message.author
        textLower == Lower[message.text]
        s1 == resetHourlyCounter(trackUser(s, author))
    IN IF author = BotName THEN {s}
       ELSE IF s1.responseCount >= s1.maxResponsesPerHour THEN {s1}
       ELSE IF now - s1.lastResponseTime < SmartGapMs THEN {s1}
       ELSE {IF Truthy(o.response)
             THEN ScheduleReply([o.s EXCEPT !.lastResponseTime = now,
                                            !.responseCount = @ + 1], o, author)
             ELSE o.s : o \in generateSmartResponse(s1, textLower, author)}

\* a processMessage that does not look at who wrote the message
QuotaProcessMessageAnswersSelf(s, message) ==
    LET author == message.author
        textLower == Lower[message.text]
    IN IF now - s.lastResponseTime < QuotaGapMs THEN {s}
       ELSE {IF Truthy(o.response)
             THEN ScheduleReply([o.s EXCEPT !.lastResponseTime = now], o, author)
             ELSE o.s : o \in generateResponse(s, textLower, author)}

QuotaProcessMessage(s, message) ==
    LET author == message.author
        textLower == Lower[message.text]
    IN IF author = BotName THEN {s}
       ELSE IF now - s.lastResponseTime < QuotaGapMs THEN {s}
       ELSE {IF Truthy(o.response)
             THEN ScheduleReply([o.s EXCEPT !.lastResponseTime = now], o, author)
             ELSE o.s : o \in generateResponse(s, textLower, author)}

processMessage(s, message) ==
    IF variant = "smart" THEN SmartProcessMessage(s, message)
                         ELSE QuotaProcessMessage(s, message)

\* for (const message of items) await this.processMessage(message)
RECURSIVE processAll(_, _)
processAll(S, items) ==
    IF items = <<>> THEN S
    ELSE processAll(UNION {processMessage(s, Head(items)) : s \in S}, Tail(items))

(* --------------------------- live-stream locator ---------------------- *)
\* checkIfStreaming up to its await: the search call is issued, or (quota
\* variant) the method returns false before issuing it.
SmartCheckStart(s, kind) == [s EXCEPT !.searches = @ (+) One(kind)]

\* a locator that searches at every hour of the day
QuotaCheckStartAnyHour(s, kind) ==
    LET c == canMakeApiCall(s, SearchCost)
    IN IF ~c.ok THEN c.s ELSE [c.s EXCEPT !.searches = @ (+) One(kind)]

QuotaCheckStart(s, kind) ==
    LET c == canMakeApiCall(s, SearchCost)
    IN IF ~c.ok THEN c.s
       ELSE IF ~isStreamingTime THEN c.s
       ELSE [c.s EXCEPT !.searches = @ (+) One(kind)]

checkIfStreamingStart(s, kind) ==
    IF variant = "smart" THEN SmartCheckStart(s, kind) ELSE QuotaCheckStart(s, kind)

\* checkIfStreaming after its await: the state and the value returned.
\* res is "error" (the call threw), "none" (no items) or the live video id.
\* a locator that resets the session counters whenever a live video is found
SmartCheckResultAlwaysReset(s, res) ==
    IF res = "error" THEN [s |-> s, isStreaming |-> FALSE]
    ELSE IF res # "none"
         THEN [s |-> [s EXCEPT !.videoId = res, !.responseCount = 0,
                               !.chatHistory = NoHistory],
               isStreaming |-> TRUE]
    ELSE [s |-> IF s.videoId # NULL THEN SmartCleanup(s) ELSE s, isStreaming |-> FALSE]

SmartCheckResult(s, res) ==
    IF res = "error" THEN [s |-> s, isStreaming |-> FALSE]
    ELSE IF res # "none"
         THEN IF res # s.videoId
              THEN [s |-> [s EXCEPT !.videoId = res, !.responseCount = 0,
                                    !.chatHistory = NoHistory],
                    isStreaming |-> TRUE]
              ELSE [s |-> s, isStreaming |-> s.videoId # NULL]
    ELSE [s |-> IF s.videoId # NULL THEN SmartCleanup(s) ELSE s, isStreaming |-> FALSE]

QuotaCheckResult(s, res) ==
    IF res = "error" THEN [s |-> s, isStreaming |-> FALSE]
    ELSE LET s1 == trackQuotaUsage(s, SearchCost)
         IN IF res # "none"
            THEN IF res # s1.videoId
                 THEN [s |-> [s1 EXCEPT !.videoId = res], isStreaming |-> TRUE]
                 ELSE [s |-> s1, isStreaming |-> s1.videoId # NULL]
            ELSE [s |-> IF s1.videoId # NULL THEN QuotaCleanup(s1) ELSE s1,
                  isStreaming |-> FALSE]

\* a locator that answers a failed search by searching again at once
checkIfStreamingResultRetrying(s, res) ==
    IF res = "error"
    THEN [s |-> [s EXCEPT !.searches = @ (+) One("tick")], isStreaming |-> FALSE]
    ELSE IF variant = "smart" THEN SmartCheckResult(s, res) ELSE QuotaCheckResult(s, res)

checkIfStreamingResult(s, res) ==
    IF variant = "smart" THEN SmartCheckResult(s, res) ELSE QuotaCheckResult(s, res)

(* ----------------------------- chat id resolver ----------------------- *)
SmartGetLiveChatIdStart(s) == [s EXCEPT !.lookups = @ (+) One(s.videoId)]

QuotaGetLiveChatIdStart(s) ==
    LET c == canMakeApiCall(s, ChatIdCost)
    IN IF ~c.ok THEN c.s ELSE [c.s EXCEPT !.lookups = @ (+) One(c.s.videoId)]

getLiveChatIdStart(s) ==
    IF variant = "smart" THEN SmartGetLiveChatIdStart(s) ELSE QuotaGetLiveChatIdStart(s)

\* a resolver that takes the chat id without testing that the field is there
getLiveChatIdResultUntested(s, vid, res) ==
    IF res = "error" THEN [s |-> s, chatReady |-> FALSE]
    ELSE LET s1 == IF variant = "smart" THEN s ELSE trackQuotaUsage(s, ChatIdCost)
         IN IF res = "empty"
            THEN [s |-> s1, chatReady |-> FALSE]
            ELSE [s |-> [s1 EXCEPT !.liveChatId = ChatOf(vid)], chatReady |-> TRUE]

\* getLiveChatId after its await, for the call that asked for video vid.
\* res is "error", "empty" (no items), "nochat" (no activeLiveChatId) or "ok".
getLiveChatIdResult(s, vid, res) ==
    IF res = "error" THEN [s |-> s, chatReady |-> FALSE]
    ELSE LET s1 == IF variant = "smart" THEN s ELSE trackQuotaUsage(s, ChatIdCost)
         IN IF res = "ok"
            THEN [s |-> [s1 EXCEPT !.liveChatId = ChatOf(vid)], chatReady |-> TRUE]
            ELSE [s |-> s1, chatReady |-> FALSE]

(* -------------------------------- chat poller ------------------------- *)
\* A fetch in flight: the chat and page token it was sent with; ret is the
\* token the previous poll of the same chain returned (NULL if none), which
\* the program does not keep.
IssueFetch(s, ret) ==
    [s EXCEPT !.fetches = @ (+) One([chat |-> s.liveChatId, token |-> s.nextPageToken,
                                     ret |-> ret])]

SmartPollMessages(s, ret) ==
    IF ~s.isRunning \/ s.liveChatId = NULL THEN s ELSE IssueFetch(s, ret)

QuotaPollMessages(s, ret) ==
    IF ~s.isRunning \/ s.liveChatId = NULL THEN s
    ELSE LET c == canMakeApiCall(s, PollCost)
         IN IF ~c.ok THEN [c.s EXCEPT !.isRunning = FALSE] ELSE IssueFetch(c.s, ret)

pollMessages(s, ret) ==
    IF variant = "smart" THEN SmartPollMessages(s, ret) ELSE QuotaPollMessages(s, ret)

\* an interval that takes the server's hint as it comes
SmartPollIntervalNoFloor(hint) == IF hint = 0 THEN SmartDefaultInterval ELSE hint

SmartPollInterval(hint) ==
    LET h == IF hint = 0 THEN SmartDefaultInterval ELSE hint
    IN IF h > SmartMinInterval THEN h ELSE SmartMinInterval

QuotaPollInterval(hint) ==
    LET h == IF hint = 0 THEN QuotaDefaultInterval ELSE hint
    IN IF h > QuotaMinInterval THEN h ELSE QuotaMinInterval

pollInterval(hint) ==
    IF variant = "smart" THEN SmartPollInterval(hint) ELSE QuotaPollInterval(hint)

SchedulePoll(s, delay, ret) ==
    [s EXCEPT !.pollTimers = @ (+) One([delay |-> delay, ret |-> ret])]

\* the part of pollMessages after a successful fetch and the message loop
PollSucceeded(s, token, hint) ==
    SchedulePoll([s EXCEPT !.nextPageToken = token], pollInterval(hint), token)

\* error.message.includes('disabled') || error.message.includes('not found')
chatGone(message) == includes(message, KwDisabled) \/ includes(message, KwNotFound)

ChatGone == [e \in ErrorMessages |-> chatGone(e)]

\* a catch block that gives up after an error that leaves the chat in place
PollFailedGivesUp(s, f, gone) == IF gone THEN cleanup(s) ELSE s

\* a catch block that schedules the retry whatever the error says
PollFailedAlwaysRetry(s, f, gone) ==
    SchedulePoll(s, IF variant = "smart" THEN SmartRetryDelay ELSE QuotaRetryDelay,
                 f.ret)

\* a catch block that tears the session down on every error
PollFailedAlwaysTearsDown(s, f, gone) == cleanup(s)

\* the catch block of pollMessages; gone: the message contains 'disabled' or 'not found'
PollFailed(s, f, gone) ==
    IF gone THEN cleanup(s)
    ELSE SchedulePoll(s, IF variant = "smart" THEN SmartRetryDelay ELSE QuotaRetryDelay,
                      f.ret)

(* ------------------------- detection callbacks ------------------------ *)
\* the interval callback ("tick") and the initial check ("initial") after
\* their search returned: they go on to getLiveChatId when they should
AfterSearch(s, kind, res) ==
    LET r == checkIfStreamingResult(s, res)
    IN IF r.isStreaming /\ (kind = "initial" \/ ~r.s.isRunning)
       THEN getLiveChatIdStart(r.s) ELSE r.s

\* the same callbacks after their videos.list call returned: on success they
\* set the running flag and start polling
AfterLookup(s, vid, res) ==
    LET r == getLiveChatIdResult(s, vid, res)
    IN IF r.chatReady THEN pollMessages([r.s EXCEPT !.isRunning = TRUE], NULL) ELSE r.s

(* --------------------------------- sending ---------------------------- *)
IssueInsert(s) == [s EXCEPT !.inserts = @ (+) One([chat |-> s.liveChatId])]

SmartSendMessage(s) == IF ~oauthTokens THEN s ELSE IssueInsert(s)

\* a sendMessage without the quota check
QuotaSendMessageUnchecked(s) == IF ~oauthTokens THEN s ELSE IssueInsert(s)

QuotaSendMessage(s) ==
    LET c == canMakeApiCall(s, SendCost)
    IN IF ~c.ok THEN c.s
       ELSE IF ~oauthTokens THEN c.s
       ELSE IssueInsert(c.s)

sendMessage(s) == IF variant = "smart" THEN SmartSendMessage(s) ELSE QuotaSendMessage(s)

InsertResult(s, ok) ==
    IF ok /\ variant = "quota" THEN trackQuotaUsage(s, SendCost) ELSE s

(* ------------------------------ status endpoint ---------------------- *)
\* the fields of the JSON status object that describe the session
status == [isMonitoring |-> isRunning,
           currentStream |-> IF videoId = NULL THEN "none" ELSE videoId]

(* --------------------------------- actions ---------------------------- *)
\* the state the constructor leaves
Init ==
    /\ variant \in {"smart", "quota"}
    /\ ownerUsername \in {"Owner", ""}
    /\ oauthTokens \in BOOLEAN
    /\ streamingHours = [start |-> 18, end |-> 23]
    /\ now = StartTime
    /\ started = FALSE
    /\ videoId = NULL /\ liveChatId = NULL /\ nextPageToken = NULL /\ isRunning = FALSE
    /\ lastResponseTime = 0
    /\ responseCount = 0
    /\ maxResponsesPerHour = DefaultMaxResponses
    /\ hourlyReset = now
    /\ chatHistory = NoHistory
    /\ dailyQuotaUsed = 0
    /\ quotaResetTime = getNextQuotaReset
    /\ searches = EmptyBag /\ lookups = EmptyBag /\ fetches = EmptyBag
    /\ pollTimers = EmptyBag /\ replyTimers = EmptyBag /\ inserts = EmptyBag

\* main -> startContinuousMonitoring: installs the interval, starts the initial check
StartMonitoring ==
    /\ ~started
    /\ started' = TRUE
    /\ Apply(checkIfStreamingStart(Cur, "initial"))
    /\ UNCHANGED <<config, now>>

\* the setInterval callback up to its first await
IntervalTick ==
    /\ started
    /\ Apply(checkIfStreamingStart(
                IF variant = "smart" THEN resetHourlyCounter(Cur) ELSE Cur, "tick"))
    /\ UNCHANGED <<config, now, started>>

\* a search call completes; the caller goes on to getLiveChatId when it should
SearchReturnsAny(results) ==
    \E kind \in BagToSet(searches), res \in results :
        /\ Apply(AfterSearch([Cur EXCEPT !.searches = @ (-) One(kind)], kind, res))
        /\ UNCHANGED <<config, now, started>>

SearchReturns == SearchReturnsAny({"error", "none"} \cup Videos)

\* a videos.list call completes; on success the caller starts polling
LookupReturnsAny(results) ==
    \E vid \in BagToSet(lookups), res \in results :
        /\ Apply(AfterLookup([Cur EXCEPT !.lookups = @ (-) One(vid)], vid, res))
        /\ UNCHANGED <<config, now, started>>

LookupReturns == LookupReturnsAny({"error", "empty", "nochat", "ok"})

\* setTimeout(() => this.pollMessages(), ...) fires
PollTimerFires ==
    \E t \in BagToSet(pollTimers) :
        /\ Apply(pollMessages([Cur EXCEPT !.pollTimers = @ (-) One(t)], t.ret))
        /\ UNCHANGED <<config, now, started>>

\* liveChatMessages.list returns: a page of messages, the next page token (NULL
\* when absent) and the polling interval hint (0 when absent)
FetchSucceeds(pages, tokens, hints) ==
    \E f \in BagToSet(fetches), items \in pages :
        LET s0 == [Cur EXCEPT !.fetches = @ (-) One(f)]
            s1 == IF variant = "smart" THEN s0 ELSE trackQuotaUsage(s0, PollCost)
        IN \E s2 \in processAll({s1}, items) :
           \E token \in tokens, hint \in hints :
              /\ Apply(PollSucceeded(s2, token, hint))
              /\ UNCHANGED <<config, now, started>>

\* liveChatMessages.list throws an error with message e
FetchFailsWith(errors) ==
    \E f \in BagToSet(fetches), e \in errors :
        /\ Apply(PollFailed([Cur EXCEPT !.fetches = @ (-) One(f)], f, ChatGone[e]))
        /\ UNCHANGED <<config, now, started>>

FetchFails == FetchFailsWith(ErrorMessages)

\* setTimeout(() => this.sendMessage(response), delay) fires
ReplyTimerFires ==
    \E r \in BagToSet(replyTimers) :
        /\ Apply(sendMessage([Cur EXCEPT !.replyTimers = @ (-) One(r)]))
        /\ UNCHANGED <<config, now, started>>

\* liveChatMessages.insert returns or throws
InsertReturns ==
    \E i \in BagToSet(inserts), ok \in BOOLEAN :
        /\ Apply(InsertResult([Cur EXCEPT !.inserts = @ (-) One(i)], ok))
        /\ UNCHANGED <<config, now, started>>

\* the wall clock advances
AdvanceTime ==
    /\ now' = now + StepMs
    /\ UNCHANGED <<config, started, videoId, liveChatId, nextPageToken, isRunning,
                   lastResponseTime, responseCount, maxResponsesPerHour, hourlyReset,
                   chatHistory, dailyQuotaUsed, quotaResetTime,
                   searches, lookups, fetches, pollTimers, replyTimers, inserts>>

(* ------------------------------ exploration --------------------------- *)
Detecting == BagCardinality(searches) + BagCardinality(lookups)
Polling == BagCardinality(fetches) + BagCardinality(pollTimers)
Replying == BagCardinality(replyTimers) + BagCardinality(inserts)
QuotaInScope == dailyQuotaUsed <= MaxLowQuota \/ dailyQuotaUsed >= NearCapQuota

RECURSIVE SeqsUpTo(_, _)
SeqsUpTo(S, n) ==
    IF n = 0 THEN {<<>>}
    ELSE LET shorter == SeqsUpTo(S, n - 1)
         IN shorter \cup {Append(q, x) : q \in shorter, x \in S}

\* Spec: the locator, the resolver and the poller from construction on, under
\* every interleaving of up to MaxDetect detection callbacks and MaxPolls
\* poll cycles; the chat is silent.
Scope ==
    /\ Detecting <= MaxDetect
    /\ Polling <= MaxPolls
    /\ QuotaInScope
    /\ now <= StartTime + MaxClock * StepMs

Next ==
    \/ StartMonitoring /\ Scope'
    \/ IntervalTick /\ Scope'
    \/ SearchReturns /\ Scope'
    \/ LookupReturns /\ Scope'
    \/ PollTimerFires /\ Scope'
    \/ FetchSucceeds({<<>>}, Tokens \cup {NULL}, Hints) /\ Scope'
    \/ FetchFails /\ Scope'
    \/ AdvanceTime /\ Scope'

Spec == Init /\ [][Next]_vars

\* SpecSession and SpecChat start in the middle of a run: the stream v1 was
\* detected, its chat resolved and polled, the owner has chatted, replies were
\* sent and quota was spent.
QuotaStarts == {9400, 9491}

Engines ==
    {[count |-> 19, max |-> 20]} \cup
    (IF ownerUsername = "Owner" THEN {[count |-> 4, max |-> 5]} ELSE {})

SessionAt(window) ==
    /\ variant \in {"smart", "quota"}
    /\ ownerUsername \in {"Owner", ""}
    /\ oauthTokens \in BOOLEAN
    /\ streamingHours = window
    /\ now = StartTime
    /\ started = TRUE
    /\ videoId = "v1" /\ liveChatId = "c1" /\ nextPageToken = "t1" /\ isRunning = TRUE
    /\ \E e \in (IF variant = "smart" THEN Engines ELSE {[count |-> 0, max |-> 20]}) :
          /\ responseCount = e.count
          /\ maxResponsesPerHour = e.max
    /\ lastResponseTime = IF variant = "smart" THEN StartTime - StepMs ELSE 0
    /\ chatHistory = IF variant = "smart"
                     THEN [a \in Chatters |-> IF a = "Owner" THEN 2 ELSE 0]
                     ELSE NoHistory
    /\ hourlyReset = StartTime + StepMs - HourMs
    /\ dailyQuotaUsed \in (IF variant = "quota" THEN QuotaStarts ELSE {0})
    /\ quotaResetTime = getNextQuotaReset
    /\ searches = EmptyBag /\ lookups = EmptyBag /\ fetches = EmptyBag
    /\ pollTimers = One([delay |-> pollInterval(0), ret |-> "t1"])
    /\ replyTimers = EmptyBag /\ inserts = EmptyBag

InitMid == SessionAt([start |-> 18, end |-> 23])

\* SpecSession: the locator, the resolver and the poller during a session,
\* the chat silent.
SessionScope ==
    /\ Detecting <= MaxSessionDetect
    /\ Polling <= MaxSessionPolls
    /\ QuotaInScope
    /\ now <= StartTime + MaxMidClock * StepMs

SessionNext ==
    \/ IntervalTick /\ SessionScope'
    \/ SearchReturns /\ SessionScope'
    \/ LookupReturns /\ SessionScope'
    \/ PollTimerFires /\ SessionScope'
    \/ FetchSucceeds({<<>>}, {"t2"}, {0}) /\ SessionScope'
    \/ FetchFails /\ SessionScope'
    \/ AdvanceTime /\ SessionScope'

SpecSession == InitMid /\ [][SessionNext]_vars

\* SpecStartup: the locator, the resolver and the poller from construction
\* until midnight, one detection callback at a time, the chat silent.
StartupScope ==
    /\ Detecting <= MaxSessionDetect
    /\ Polling <= MaxSessionPolls
    /\ QuotaInScope
    /\ now < DayMs

StartupNext ==
    \/ StartMonitoring /\ StartupScope'
    \/ IntervalTick /\ StartupScope'
    \/ SearchReturns /\ StartupScope'
    \/ LookupReturns /\ StartupScope'
    \/ PollTimerFires /\ StartupScope'
    \/ FetchSucceeds({<<>>}, {"t2"}, {0}) /\ StartupScope'
    \/ FetchFails /\ StartupScope'
    \/ AdvanceTime /\ StartupScope'

SpecStartup == Init /\ [][StartupNext]_vars

\* SpecChat: the poller, the response engine and the sender during a session
\* with chat traffic; no detection tick falls into it.
ChatMessages ==
    {[author |-> "Viewer", text |-> TxSayBot], [author |-> "Owner", text |-> TxPingUpper],
     [author |-> BotName, text |-> TxGG]}
ChatPages == SeqsUpTo(ChatMessages, MaxPage)

ChatScope ==
    /\ Replying <= MaxReplies
    /\ QuotaInScope
    /\ now <= StartTime + MaxMidClock * StepMs

ChatNext ==
    \/ PollTimerFires /\ ChatScope'
    \/ FetchSucceeds(ChatPages, {"t2"}, {0}) /\ ChatScope'
    \/ FetchFails /\ ChatScope'
    \/ ReplyTimerFires /\ ChatScope'
    \/ InsertReturns /\ ChatScope'
    \/ AdvanceTime /\ ChatScope'

SpecChat == InitMid /\ [][ChatNext]_vars

\* SpecModes: as SpecChat, with a viewer who greets the bot and an owner who
\* switches the bot to quiet mode; the server sends an interval hint with some
\* of the pages.
ModeMessages ==
    {[author |-> "Viewer", text |-> TxHelloBot], [author |-> "Owner", text |-> TxQuiet]}
ModePages == SeqsUpTo(ModeMessages, MaxPage)
\* pollingIntervalMillis: absent, or above the floor of both variants
ModeHints == {0, 9000}

ModeNext ==
    \/ PollTimerFires /\ ChatScope'
    \/ FetchSucceeds(ModePages, {"t2"}, ModeHints) /\ ChatScope'
    \/ FetchFails /\ ChatScope'
    \/ ReplyTimerFires /\ ChatScope'
    \/ InsertReturns /\ ChatScope'
    \/ AdvanceTime /\ ChatScope'

SpecModes == InitMid /\ [][ModeNext]_vars

\* SpecLive: the smart variant from construction on while the channel is
\* live with its chat enabled: a search finds v1 or fails, a chat-id lookup
\* succeeds or fails, a fetch succeeds or fails with an error that leaves the
\* chat in place. The interval timer keeps ticking and every timer that is
\* set fires (weak fairness); every call returns (weak fairness on the fetch);
\* searches and lookups do not fail forever (strong fairness on their success).
InitLive == Init /\ variant = "smart"

SearchFinds == SearchReturnsAny({"v1"}) /\ SessionScope'
LookupSucceeds == LookupReturnsAny({"ok"}) /\ SessionScope'
FetchReturns ==
    (FetchSucceeds({<<>>}, {"t2"}, {0}) \/ FetchFailsWith({ErrHangUp})) /\ SessionScope'

LiveNext ==
    \/ StartMonitoring /\ SessionScope'
    \/ IntervalTick /\ SessionScope'
    \/ SearchReturnsAny({"v1"}) /\ SessionScope'
    \/ SearchReturnsAny({"error"}) /\ SessionScope'
    \/ LookupReturnsAny({"ok"}) /\ SessionScope'
    \/ LookupReturnsAny({"error"}) /\ SessionScope'
    \/ PollTimerFires /\ SessionScope'
    \/ FetchSucceeds({<<>>}, {"t2"}, {0}) /\ SessionScope'
    \/ FetchFailsWith({ErrHangUp}) /\ SessionScope'
    \/ AdvanceTime /\ SessionScope'

LiveFair ==
    /\ WF_vars(StartMonitoring /\ SessionScope')
    /\ WF_vars(IntervalTick /\ SessionScope')
    /\ SF_vars(SearchFinds)
    /\ SF_vars(LookupSucceeds)
    /\ WF_vars(PollTimerFires /\ SessionScope')
    /\ WF_vars(FetchReturns)
    /\ WF_vars(AdvanceTime /\ SessionScope')

SpecLive == InitLive /\ [][LiveNext]_vars /\ LiveFair

\* SpecResume: the quota variant in a session near the quota ceiling shortly
\* before midnight, the streaming window 22..2 open across midnight, the
\* stream live: a search finds v1 or fails, the chat-id lookup succeeds, a
\* fetch succeeds or fails with an error that leaves the chat in place.
\* The chat is silent, so one configuration of owner and tokens stands for
\* all. Fairness as in SpecLive.
InitResume ==
    /\ SessionAt([start |-> 22, end |-> 2])
    /\ variant = "quota" /\ ownerUsername = "Owner" /\ oauthTokens

ResumeNext ==
    \/ IntervalTick /\ SessionScope'
    \/ SearchReturnsAny({"v1"}) /\ SessionScope'
    \/ SearchReturnsAny({"error"}) /\ SessionScope'
    \/ LookupReturnsAny({"ok"}) /\ SessionScope'
    \/ PollTimerFires /\ SessionScope'
    \/ FetchSucceeds({<<>>}, {"t2"}, {0}) /\ SessionScope'
    \/ FetchFailsWith({ErrHangUp}) /\ SessionScope'
    \/ AdvanceTime /\ SessionScope'

SpecResume == InitResume /\ [][ResumeNext]_vars /\ LiveFair

(* ------------------------------- properties --------------------------- *)
\* C1: at most one chat poll cycle exists at any time: there is never more than
\* one pollMessages fetch in flight or poll timer pending.
C1_PollsNeverOverlap == Polling <= 1

\* C2: whenever the bot is running, the live chat id being polled is the one
\* resolved for the currently tracked video id.
C2_ChatOfTrackedVideo ==
    (isRunning /\ videoId # NULL) => liveChatId = ChatOf(videoId)

\* C3: in the quota variant the daily counter never exceeds the ceiling that
\* canMakeApiCall compares against.
C3_QuotaWithinCeiling == variant = "quota" => dailyQuotaUsed <= QuotaThreshold

\* C4: in the smart variant, when responseCount has reached maxResponsesPerHour
\* and no hourly reset is due, processing any message, an owner admin command
\* included, schedules no send and leaves responseCount and lastResponseTime
\* unchanged.
HourlyCapReached ==
    responseCount >= maxResponsesPerHour /\ ~(now - hourlyReset > HourMs)

C4_NoReplyAtHourlyCap ==
    (variant = "smart" /\ HourlyCapReached) =>
        \A m \in Messages : \A s2 \in SmartProcessMessage(Cur, m) :
            /\ s2.replyTimers = replyTimers
            /\ s2.responseCount = responseCount
            /\ s2.lastResponseTime = lastResponseTime

\* every message of the owner and the viewer is answered when the engine
\* allows it, so the first of them brought the count to the cap and the
\* viewer's second message was processed with the cap reached
C4_Witness ==
    /\ variant = "smart"
    /\ ownerUsername = "Owner"
    /\ HourlyCapReached
    /\ chatHistory["Viewer"] = 2
    /\ replyTimers = EmptyBag

\* C5 (as stated): in the quota variant, when a send of cost 50 would exceed the
\* ceiling, no step schedules a reply for an incoming message.
DailyCapReached ==
    dailyQuotaUsed + SendCost > QuotaThreshold /\ now < quotaResetTime

C5_NoScheduleAtDailyCap ==
    [][(variant = "quota" /\ DailyCapReached) =>
           BagCardinality(replyTimers') <= BagCardinality(replyTimers)]_vars

\* C5 (amended): in the quota variant the reply is scheduled whatever the
\* counter says; the cap acts when the reply timer fires: while a send of cost
\* 50 would exceed the ceiling, firing any pending reply timer issues no send
\* call and leaves the counter unchanged.
C5_NoSendAtDailyCap ==
    (variant = "quota" /\ DailyCapReached) =>
        \A r \in BagToSet(replyTimers) :
            LET s2 == QuotaSendMessage([Cur EXCEPT !.replyTimers = @ (-) One(r)])
            IN /\ s2.inserts = inserts
               /\ s2.dailyQuotaUsed = dailyQuotaUsed

\* a reply scheduled at this instant is waiting for its timer while the counter
\* stands at the cap
C5_Witness ==
    /\ variant = "quota"
    /\ oauthTokens
    /\ DailyCapReached
    /\ lastResponseTime = now
    /\ replyTimers # EmptyBag

\* C6: for a message whose author is not the configured owner (whoever it is
\* when no owner is configured) no admin command is honoured: no admin reply
\* is scheduled and maxResponsesPerHour is unchanged; a reply, if any, comes
\* from the greeting, keyword, FAQ or ambient rules.
AdminTexts == {Pong, QuietReply, ActiveReply, NormalReply, StatusPrefix, QuotaPrefix}
OrdinaryRules == {"greeting", "amazing", "fail", "clutch", "funny", "faq", "ambient"}

C6_AdminOnlyForOwner ==
    \A m \in Messages : m.author # ownerUsername =>
        \A s2 \in processMessage(Cur, m) :
            /\ s2.maxResponsesPerHour = maxResponsesPerHour
            /\ \A r \in BagToSet(s2.replyTimers (-) replyTimers) :
                  /\ r.rule \in OrdinaryRules
                  /\ r.response.text \notin AdminTexts

\* a viewer's "!say is the bot real" was not echoed: the FAQ rule answered it
C6_Witness ==
    /\ ownerUsername = "Owner"
    /\ \E r \in BagToSet(replyTimers) : r.author = "Viewer" /\ r.rule = "faq"

\* C7: a poll call issued by a poll chain supplies the continuation token that
\* the chain's previous poll call returned.
C7_TokenRoundTrip ==
    \A f \in BagToSet(fetches) : f.ret # NULL => f.token = f.ret

\* C8: in the smart variant a search result naming a live video other than the
\* tracked one makes the locator adopt it and reset responseCount and
\* chatHistory; a result naming the tracked video resets nothing.
C8_ResetOncePerVideo ==
    variant = "smart" =>
        \A res \in Videos :
            LET r == SmartCheckResult(Cur, res)
            IN IF res # videoId
               THEN /\ r.isStreaming
                    /\ r.s.videoId = res
                    /\ r.s.responseCount = 0
                    /\ r.s.chatHistory = NoHistory
               ELSE /\ r.s.videoId = videoId
                    /\ r.s.responseCount = responseCount
                    /\ r.s.chatHistory = chatHistory

\* v2 was adopted while v1 was tracked and polled: the counters stand reset
C8_Witness ==
    /\ variant = "smart"
    /\ videoId = "v2"
    /\ isRunning
    /\ responseCount = 0
    /\ chatHistory = NoHistory

\* C9: while no video is tracked the status endpoint reports currentStream
\* "none" and isMonitoring false.
C9_TornDownStatus == status.currentStream = "none" => ~status.isMonitoring

\* C10: in the quota variant, for each call type (search 100, chat-id lookup 1,
\* poll 5, send 50): if the counter plus the cost exceeds the ceiling, the call
\* is not issued and the counter is unchanged.
Refused(cost) == dailyQuotaUsed + cost > QuotaThreshold /\ now < quotaResetTime

C11_ChargedAndPerformed ==
    variant = "quota" =>
        /\ \A kind \in BagToSet(searches), res \in {"error", "none"} \cup Videos :
              QuotaCheckResult([Cur EXCEPT !.searches = @ (-) One(kind)], res)
                  .s.dailyQuotaUsed = dailyQuotaUsed + SearchCost
        /\ \A vid \in BagToSet(lookups), res \in {"error", "empty", "nochat", "ok"} :
              getLiveChatIdResult([Cur EXCEPT !.lookups = @ (-) One(vid)], vid, res)
                  .s.dailyQuotaUsed = dailyQuotaUsed + ChatIdCost
        /\ \A f \in BagToSet(fetches) :
              PollFailed([Cur EXCEPT !.fetches = @ (-) One(f)], f, FALSE)
                  .dailyQuotaUsed = dailyQuotaUsed + PollCost
        /\ \A i \in BagToSet(inserts), ok \in BOOLEAN :
              InsertResult([Cur EXCEPT !.inserts = @ (-) One(i)], ok)
                  .dailyQuotaUsed = dailyQuotaUsed + SendCost
        /\ (QuotaAfterReset(Cur).dailyQuotaUsed + SearchCost <= DailyQuotaLimit
               /\ isStreamingTime) =>
              QuotaCheckStart(Cur, "tick").searches # searches
        /\ (QuotaAfterReset(Cur).dailyQuotaUsed + PollCost <= DailyQuotaLimit
               /\ isRunning /\ liveChatId # NULL) =>
              QuotaPollMessages(Cur, NULL).fetches # fetches
        /\ (QuotaAfterReset(Cur).dailyQuotaUsed + SendCost <= DailyQuotaLimit
               /\ oauthTokens) =>
              QuotaSendMessage(Cur).inserts # inserts

\* C12: in the quota variant the daily counter is reset to 0 by the first quota
\* check at or after the stored reset time and by no step before it, and a
\* reset leaves the stored reset time strictly later than the clock.
QuotaCosts == {SearchCost, ChatIdCost, PollCost, SendCost}

ResetDue == now >= quotaResetTime

C12_ResetAtMidnight ==
    [][variant = "quota" =>
          /\ ResetDue =>
                \A cost \in QuotaCosts :
                    /\ canMakeApiCall(Cur, cost).s.dailyQuotaUsed = 0
                    /\ canMakeApiCall(Cur, cost).s.quotaResetTime > now
          /\ ~ResetDue =>
                /\ dailyQuotaUsed' >= dailyQuotaUsed
                /\ quotaResetTime' = quotaResetTime
                /\ \A cost \in QuotaCosts : canMakeApiCall(Cur, cost).s = Cur
          /\ quotaResetTime' # quotaResetTime =>
                /\ dailyQuotaUsed' = 0
                /\ quotaResetTime' > now']_vars

\* midnight has passed, the counter was reset and counts the new day's calls
C12_Witness ==
    /\ variant = "quota"
    /\ now >= DayMs
    /\ quotaResetTime = 2 * DayMs
    /\ dailyQuotaUsed > 0
    /\ dailyQuotaUsed <= MaxLowQuota

\* C13: when a poll call fails with a message containing 'disabled' or
\* 'not found', the session is torn down (video id, chat id and token null,
\* running flag false) and no further poll is scheduled by that chain.
C13_TeardownOnChatGone ==
    \A f \in BagToSet(fetches), e \in ErrorMessages : chatGone(e) =>
        LET s0 == [Cur EXCEPT !.fetches = @ (-) One(f)]
            s2 == PollFailed(s0, f, ChatGone[e])
        IN /\ s2.videoId = NULL
           /\ s2.liveChatId = NULL
           /\ s2.nextPageToken = NULL
           /\ ~s2.isRunning
           /\ s2.pollTimers = pollTimers
           /\ s2.fetches = s0.fetches

\* the session's only poll chain ended in a teardown
C13_Witness ==
    /\ videoId = NULL
    /\ liveChatId = NULL
    /\ nextPageToken = NULL
    /\ ~isRunning
    /\ Polling = 0

\* C14: when a poll call fails with any other message, exactly one retry poll is
\* scheduled after the fixed backoff (10 s smart, 15 s quota) and video id,
\* chat id, token, running flag and counters are left unchanged.
RetryDelay == IF variant = "smart" THEN SmartRetryDelay ELSE QuotaRetryDelay

C14_RetryOnOtherError ==
    \A f \in BagToSet(fetches), e \in ErrorMessages : ~chatGone(e) =>
        LET s0 == [Cur EXCEPT !.fetches = @ (-) One(f)]
            s2 == PollFailed(s0, f, ChatGone[e])
            added == s2.pollTimers (-) pollTimers
        IN /\ BagCardinality(added) = 1
           /\ pollTimers \sqsubseteq s2.pollTimers
           /\ \A t \in BagToSet(added) : t.delay = RetryDelay
           /\ s2.fetches = s0.fetches
           /\ s2.videoId = videoId
           /\ s2.liveChatId = liveChatId
           /\ s2.nextPageToken = nextPageToken
           /\ s2.isRunning = isRunning
           /\ s2.responseCount = responseCount
           /\ s2.lastResponseTime = lastResponseTime
           /\ s2.maxResponsesPerHour = maxResponsesPerHour
           /\ s2.hourlyReset = hourlyReset
           /\ s2.chatHistory = chatHistory
           /\ s2.dailyQuotaUsed = dailyQuotaUsed
           /\ s2.quotaResetTime = quotaResetTime

\* the retry of a failed poll is pending and the session stands as it was
C14_Witness ==
    /\ isRunning
    /\ videoId = "v1"
    /\ liveChatId = "c1"
    /\ fetches = EmptyBag
    /\ \E t \in BagToSet(pollTimers) : t.delay = RetryDelay /\ t.delay # pollInterval(0)

\* C15: when the search call of a detection callback fails, checkIfStreaming
\* returns false and the callback ends there: no search is issued again, no
\* chat-id lookup and no poll is started, and no field of the session changes.
C15_SearchErrorIsNotStreaming ==
    \A kind \in BagToSet(searches) :
        LET s0 == [Cur EXCEPT !.searches = @ (-) One(kind)]
        IN /\ ~checkIfStreamingResult(s0, "error").isStreaming
           /\ AfterSearch(s0, kind, "error") = s0

\* the initial search was issued and has failed: nothing was charged, nothing
\* is tracked and nothing is outstanding
C15_Witness ==
    /\ variant = "quota"
    /\ started
    /\ dailyQuotaUsed = 0
    /\ Detecting = 0
    /\ Polling = 0
    /\ videoId = NULL
    /\ ~isRunning

\* C16: when the chat-id lookup yields no active live chat id (the call threw,
\* no items, or the field is absent), getLiveChatId returns false and its
\* caller leaves the bot as it is: the running flag is not set, no live chat
\* id is stored and no poll is started.
C16_NoChatStaysIdle ==
    \A vid \in BagToSet(lookups), res \in {"error", "empty", "nochat"} :
        LET s0 == [Cur EXCEPT !.lookups = @ (-) One(vid)]
            s2 == AfterLookup(s0, vid, res)
        IN /\ ~getLiveChatIdResult(s0, vid, res).chatReady
           /\ s2.isRunning = isRunning
           /\ s2.liveChatId = liveChatId
           /\ s2.fetches = fetches
           /\ s2.pollTimers = pollTimers
           /\ s2.lookups = s0.lookups

\* a live video is tracked, its lookup has come back without a chat id and
\* the bot is idle
C16_Witness ==
    /\ variant = "smart"
    /\ videoId # NULL
    /\ liveChatId = NULL
    /\ ~isRunning
    /\ Detecting = 0
    /\ Polling = 0

\* C17: a message whose author is the bot's own display name is skipped: no
\* reply is scheduled and nothing changes (user records, responseCount,
\* lastResponseTime, maxResponsesPerHour and every other field).
C17_OwnMessagesSkipped ==
    \A t \in Texts : processMessage(Cur, [author |-> BotName, text |-> t]) = {Cur}

\* a page was processed and no reply came of it, where the same words from a
\* viewer would be answered
C17_Witness ==
    /\ nextPageToken = "t2"
    /\ pollTimers # EmptyBag
    /\ Replying = 0
    /\ \A s2 \in processMessage(Cur, [author |-> "Viewer", text |-> TxHelloBot]) :
           s2.replyTimers # replyTimers

\* C18: processing a message schedules at most one reply, and the text of a
\* reply that is not an admin reply is one of the phrases (or the fixed
\* answer) of a category whose keywords the message contains, or one of the
\* ambient phrases.
Range(seq) == {seq[i] : i \in 1..Len(seq)}

SmartAllowed ==
    [t \in LowerTexts |->
        (IF containsGreeting(t) THEN Range(SmartGreetings) ELSE {})
        \cup (IF includesAny(t, AmazingWords) THEN Range(SmartAmazing) ELSE {})
        \cup (IF includesAny(t, FailWords) THEN Range(SmartFail) ELSE {})
        \cup (IF includesAny(t, ClutchWords) THEN Range(SmartClutch) ELSE {})
        \cup (IF includesAny(t, FunnyWords) THEN Range(SmartFunny) ELSE {})
        \cup (IF includes(t, KwHowAreYou) THEN {SmartHowAreYou} ELSE {})
        \cup (IF includes(t, KwWhatGame) THEN {SmartWhatGame} ELSE {})
        \cup (IF includes(t, KwBot) /\ (includes(t, KwAreYou) \/ includes(t, KwReal))
              THEN {SmartBotAnswer} ELSE {})
        \cup Range(SmartEngagements)]

QuotaAllowed ==
    [t \in LowerTexts |->
        (IF includesAny(t, QuotaGreetingWords) THEN Range(QuotaGreetings) ELSE {})
        \cup (IF includesAny(t, QuotaAmazingWords) THEN Range(QuotaAmazing) ELSE {})
        \cup (IF includesAny(t, QuotaFailWords) THEN Range(QuotaFail) ELSE {})
        \cup (IF includesAny(t, QuotaClutchWords) THEN Range(QuotaClutch) ELSE {})
        \cup (IF includes(t, KwBot) /\ (includes(t, KwAreYou) \/ includes(t, KwReal))
              THEN {QuotaBotAnswer} ELSE {})
        \cup Range(QuotaEngagements)]

C18_OneReplyFromMatchedCategory ==
    \A m \in Messages : \A s2 \in processMessage(Cur, m) :
        LET added == s2.replyTimers (-) replyTimers
            allowed == IF variant = "smart" THEN SmartAllowed[Lower[m.text]]
                                            ELSE QuotaAllowed[Lower[m.text]]
        IN /\ replyTimers \sqsubseteq s2.replyTimers
           /\ BagCardinality(added) <= 1
           /\ \A r \in BagToSet(added) :
                  r.rule \notin AdminRules =>
                      r.response.text \in allowed /\ r.response.args = <<>>

\* with no owner configured "!PING" is no command: it matched no keyword and
\* an ambient phrase was scheduled for it
C18_Witness ==
    /\ ownerUsername = ""
    /\ \E r \in BagToSet(replyTimers) :
           /\ r.author = "Owner"
           /\ r.rule = "ambient"
           /\ r.response.text \in
                 (IF variant = "smart" THEN Range(SmartEngagements)
                                       ELSE Range(QuotaEngagements))

\* C19: in the smart variant the rules are applied in the order admin
\* commands (owner only), first-time greeting, keyword reactions, fixed FAQ
\* answers, ambient engagement: the reply comes from a rule the message
\* satisfies, never from a rule after one that fired, and the first rule the
\* message satisfies can produce it.  Admin commands, the greeting and the FAQ
\* answers fire whenever they are satisfied; a keyword reaction and the
\* ambient engagement fire by chance.
SmartRank(rule) ==
    CASE rule \in AdminRules -> 1
      [] rule = "greeting" -> 2
      [] rule \in {"amazing", "fail", "clutch", "funny"} -> 3
      [] rule = "faq" -> 4
      [] rule = "ambient" -> 5
      [] OTHER -> 6

\* what the words of a message satisfy, tabulated over the texts in use
IsAdminCommand ==
    [t \in LowerTexts |->
        \/ t \in {CmdStatus, CmdPing, CmdQuiet, CmdActive, CmdNormal}
        \/ startsWith(t, CmdSay)]

HasKeyword ==
    [t \in LowerTexts |->
        \/ includesAny(t, AmazingWords) \/ includesAny(t, FailWords)
        \/ includesAny(t, ClutchWords) \/ includesAny(t, FunnyWords)]

HasQuestion ==
    [t \in LowerTexts |->
        \/ includes(t, KwHowAreYou) \/ includes(t, KwWhatGame)
        \/ includes(t, KwBot) /\ (includes(t, KwAreYou) \/ includes(t, KwReal))]

SmartSatisfies(rank, s, text, author) ==
    CASE rank = 1 -> author = ownerUsername /\ IsAdminCommand[text]
      [] rank = 2 -> Greets[text] /\ s.chatHistory[author] = 1
      [] rank = 3 -> HasKeyword[text]
      [] rank = 4 -> HasQuestion[text]
      [] OTHER -> TRUE

PingOfOwner == [author |-> "Owner", text |-> TxPing]

PongScheduled(s2) ==
    LET added == s2.replyTimers (-) replyTimers
    IN /\ replyTimers \sqsubseteq s2.replyTimers
       /\ BagCardinality(added) = 1
       /\ \A r \in BagToSet(added) : r.response = Plain(Pong)

C20_PingAlwaysAnswered ==
    ownerUsername = "Owner" =>
        \A s2 \in processMessage(Cur, PingOfOwner) : PongScheduled(s2)

\* C20 (amended): the rate limits come before the commands.  When the engine
\* accepts the message (smart: responseCount, after the hourly reset, below
\* maxResponsesPerHour and 5 s since the last reply; quota: 15 s since the
\* last reply) the owner's !ping schedules exactly one reply, the Pong reply;
\* otherwise it schedules none.
EngineAccepts ==
    IF variant = "smart"
    THEN LET s1 == resetHourlyCounter(Cur)
         IN /\ s1.responseCount < s1.maxResponsesPerHour
            /\ now - s1.lastResponseTime >= SmartGapMs
    ELSE now - lastResponseTime >= QuotaGapMs

C20_PingAnsweredWhenAccepted ==
    ownerUsername = "Owner" =>
        \A s2 \in processMessage(Cur, PingOfOwner) :
            IF EngineAccepts THEN PongScheduled(s2) ELSE s2.replyTimers = replyTimers

\* the owner's ping was answered at this instant: the Pong reply waits for its
\* timer and the engine accepts nothing for the moment
C20_Witness ==
    /\ ownerUsername = "Owner"
    /\ lastResponseTime = now
    /\ ~EngineAccepts
    /\ \E r \in BagToSet(replyTimers) : r.author = "Owner" /\ r.response = Plain(Pong)

\* C21: in the smart variant a greeting reply is produced only for the first
\* message of an author since the user records were last cleared, so an
\* author is greeted at most once per session; the records are cleared by a
\* teardown and by the adoption of a new video id, and by no other step.
TornDown == videoId = NULL /\ liveChatId = NULL /\ nextPageToken = NULL /\ ~isRunning

C21_GreetsFirstMessageOnly ==
    variant = "smart" =>
        /\ \A m \in Messages : \A s2 \in SmartProcessMessage(Cur, m) :
              \A r \in BagToSet(s2.replyTimers (-) replyTimers) :
                  r.rule = "greeting" =>
                      /\ chatHistory[m.author] = 0
                      /\ s2.chatHistory[m.author] = 1
                      /\ \A m2 \in Messages : m2.author = m.author =>
                            \A s3 \in SmartProcessMessage(
                                          [s2 EXCEPT !.lastResponseTime = 0], m2) :
                                \A r3 \in BagToSet(s3.replyTimers (-) s2.replyTimers) :
                                    r3.rule # "greeting"
        /\ SmartCleanup(Cur).chatHistory = NoHistory
        /\ \A res \in Videos :
              res # videoId => SmartCheckResult(Cur, res).s.chatHistory = NoHistory

C21_RecordsLostOnlyWithSession ==
    (variant = "smart" /\ \E a \in Chatters : chatHistory'[a] < chatHistory[a]) =>
        /\ chatHistory' = NoHistory
        /\ TornDown' \/ videoId' # videoId

C21_GreetingOncePerSession ==
    []C21_GreetsFirstMessageOnly /\ [][C21_RecordsLostOnlyWithSession]_vars

\* the viewer was greeted for "hello bot"; the hour's count started anew and
\* the viewer's next "hello bot" drew an ambient phrase, not a greeting
C21_Witness ==
    /\ variant = "smart"
    /\ chatHistory["Viewer"] = 2
    /\ responseCount = 1
    /\ \E r \in BagToSet(replyTimers) : r.author = "Viewer" /\ r.rule = "ambient"

\* C22: a fetch that succeeds schedules exactly one next poll, whatever token
\* and interval hint it returned; the delay is the larger of the hint and the
\* floor (2000 ms smart, 8000 ms quota), an absent hint counting as 5000 ms
\* (smart) or 10000 ms (quota); so the delay is never below the floor and
\* never below a hint that is present.
PollHints == {0, 1, 1000, 1999, 2000, 2001, 5000, 7999, 8000, 8001, 9000, 12000}

C22_NextPollDelay ==
    \A token \in Tokens \cup {NULL}, hint \in PollHints :
        LET s2 == PollSucceeded(Cur, token, hint)
            added == s2.pollTimers (-) pollTimers
            floor == IF variant = "smart" THEN 2000 ELSE 8000
            h == IF hint # 0 THEN hint ELSE IF variant = "smart" THEN 5000 ELSE 10000
        IN /\ pollTimers \sqsubseteq s2.pollTimers
           /\ BagCardinality(added) = 1
           /\ \A t \in BagToSet(added) :
                 /\ t.delay \in {h, floor}
                 /\ t.delay >= floor
                 /\ t.delay >= h

\* a fetch returned the token t2 with the hint 9000 and its next poll waits
\* 9000 ms
C22_Witness ==
    /\ nextPageToken = "t2"
    /\ pollTimers = One([delay |-> 9000, ret |-> "t2"])
    /\ fetches = EmptyBag

\* C23: a reply is scheduled only when at least 5 s (smart) or 15 s (quota)
\* have passed since the processing time of the message that drew the previous
\* reply, and that time is remembered in lastResponseTime; the messages of one
\* page, processed at one instant, draw at most one reply; lastResponseTime
\* changes only when a reply is scheduled.
GapPages == SeqsUpTo(ModeMessages \cup {[author |-> BotName, text |-> TxGG]}, 2)

C23_PageRespectsGap ==
    \A page \in GapPages : \A s2 \in processAll({Cur}, page) :
        LET added == s2.replyTimers (-) replyTimers
        IN /\ BagCardinality(added) <= 1
           /\ added # EmptyBag =>
                 /\ s2.lastResponseTime = now
                 /\ now - lastResponseTime >= (IF variant = "smart" THEN 5000 ELSE 15000)
           /\ s2.lastResponseTime # lastResponseTime => added # EmptyBag

C23_StepRespectsGap ==
    LET added == replyTimers' (-) replyTimers
    IN /\ BagCardinality(added) <= 1
       /\ added # EmptyBag =>
             /\ lastResponseTime' = now
             /\ now - lastResponseTime >= (IF variant = "smart" THEN 5000 ELSE 15000)
       /\ lastResponseTime' # lastResponseTime => added # EmptyBag

C23_MinimumGap == []C23_PageRespectsGap /\ [][C23_StepRespectsGap]_vars

\* the owner's !quiet is answered two clock steps into the exploration, after
\* the hour's count started anew, and the time of that answer is remembered
C23_Witness ==
    /\ variant = "smart"
    /\ now = StartTime + 2 * StepMs
    /\ lastResponseTime = now
    /\ responseCount = 1
    /\ maxResponsesPerHour = 5
    /\ \E r \in BagToSet(replyTimers) : r.author = "Owner" /\ r.rule = "quiet"

\* C24: in the quota variant a detection tick that falls into an hour outside
\* the streaming window (start <= end: hour < start or hour > end; start > end:
\* end < hour < start) issues no search, adds nothing to the quota counter and
\* ends there: video id, chat id, token, running flag, timers and calls in
\* flight stay as they were, so a running poll loop goes on.
Hours == 0..23

WindowAsStated ==
    \A hour \in Hours, start \in Hours, end \in Hours :
        ~inWindow(hour, start, end) <=>
            IF start <= end THEN hour < start \/ hour > end
                            ELSE end < hour /\ hour < start

C24_NoSearchOutsideWindow ==
    /\ WindowAsStated
    /\ (variant = "quota" /\ ~isStreamingTime) =>
          \A kind \in {"initial", "tick"} :
              LET s2 == QuotaCheckStart(Cur, kind)
              IN /\ s2 = QuotaAfterReset(Cur)
                 /\ s2.searches = searches
                 /\ s2.dailyQuotaUsed <= dailyQuotaUsed
                 /\ s2.videoId = videoId /\ s2.liveChatId = liveChatId
                 /\ s2.nextPageToken = nextPageToken /\ s2.isRunning = isRunning
                 /\ s2.pollTimers = pollTimers /\ s2.fetches = fetches

\* midnight has passed and the hour 0 lies outside the window 18..23; a tick
\* has reset the daily counter, no poll has fired since and the session runs on
C24_Witness ==
    /\ variant = "quota"
    /\ ~isStreamingTime
    /\ dailyQuotaUsed = 0
    /\ quotaResetTime = 2 * DayMs
    /\ isRunning /\ videoId = "v1" /\ liveChatId = "c1" /\ nextPageToken = "t1"
    /\ searches = EmptyBag /\ lookups = EmptyBag /\ fetches = EmptyBag
    /\ pollTimers = One([delay |-> QuotaDefaultInterval, ret |-> "t1"])

\* C25: whenever the running flag is set, a video id and a live chat id are
\* tracked.
C25_RunningHasSession == isRunning => (videoId # NULL /\ liveChatId # NULL)

\* C26: when a reply timer fires and its send call is issued, the call is
\* addressed to the live chat that was polled when the reply was scheduled
\* (smart variant).
C26_ReplyGoesToItsChat ==
    variant = "smart" =>
        \A r \in BagToSet(replyTimers) :
            LET s2 == sendMessage([Cur EXCEPT !.replyTimers = @ (-) One(r)])
            IN \A i \in BagToSet(s2.inserts (-) inserts) : i.chat = r.chat

\* C27: while no live chat is tracked (from a teardown until the chat of a new
\* session is resolved) no continuation token is stored: a fetch that was in
\* flight at the teardown does not store the token it returns.
C27_NoTokenWithoutSession == liveChatId = NULL => nextPageToken = NULL

\* C28 as stated: in the smart variant responseCount never exceeds
\* maxResponsesPerHour, and maxResponsesPerHour is one of 5, 20 and 30.
C28_CountWithinCap ==
    variant = "smart" =>
        /\ responseCount <= maxResponsesPerHour
        /\ maxResponsesPerHour \in {5, 20, 30}

\* C28, amended: a reply is scheduled only while responseCount (after the
\* hourly reset) is below the ceiling in force when the message arrives, and
\* it adds one to responseCount; the ceiling is one of 5, 20 and 30 and the
\* count never exceeds 30, but a mode switch may put the ceiling below the
\* count; in every step responseCount grows by the number of replies scheduled
\* in it, counted from 0 if the step reset the counter.
C28_ReplyBelowCeiling ==
    variant = "smart" =>
        /\ maxResponsesPerHour \in {5, 20, 30}
        /\ responseCount <= 30
        /\ \A m \in Messages : \A s2 \in SmartProcessMessage(Cur, m) :
              LET s1 == resetHourlyCounter(Cur)
                  added == s2.replyTimers (-) replyTimers
              IN /\ s2.maxResponsesPerHour \in {5, 20, 30}
                 /\ added # EmptyBag =>
                       /\ s1.responseCount < s1.maxResponsesPerHour
                       /\ s2.responseCount = s1.responseCount + 1
                 /\ added = EmptyBag =>
                       s2.responseCount \in {responseCount, s1.responseCount}

C28_CountFollowsReplies ==
    variant = "smart" =>
        LET n == BagCardinality(replyTimers' (-) replyTimers)
        IN responseCount' = responseCount + n \/ responseCount' = n

C28_CountAndCeiling == []C28_ReplyBelowCeiling /\ [][C28_CountFollowsReplies]_vars

\* the owner's !quiet was answered as the 20th reply of the hour and put the
\* ceiling at 5
C28_Witness ==
    /\ variant = "smart"
    /\ responseCount = 20
    /\ maxResponsesPerHour = 5
    /\ \E r \in BagToSet(replyTimers) : r.author = "Owner" /\ r.rule = "quiet"

\* C29: in the smart variant, while the channel is live with its chat enabled
\* and searches and chat-id lookups do not fail forever, the bot eventually
\* runs; and unless the running flag is cleared again and again, poll fetches
\* are issued again and again.
FetchIssued == BagCardinality(fetches') > BagCardinality(fetches)

C29_RunsAndKeepsPolling ==
    /\ <>isRunning
    /\ []<>(~isRunning) \/ []<><<FetchIssued>>_vars

\* the bot runs on v1, a fetch has failed, its retry is pending with the token
\* of an earlier successful fetch
C29_Witness ==
    /\ variant = "smart"
    /\ isRunning /\ videoId = "v1" /\ liveChatId = "c1"
    /\ nextPageToken = "t2"
    /\ pollTimers = One([delay |-> SmartRetryDelay, ret |-> "t2"])

\* C30: in the quota variant a poll refused for lack of quota clears the
\* running flag, issues no fetch and schedules no poll, and keeps video id,
\* chat id and token; with the stream still live, after the daily reset a
\* detection tick inside the streaming window resumes polling of that stream.
C30_RefusalKeepsSession ==
    variant = "quota" =>
        \A t \in BagToSet(pollTimers) :
            LET s0 == [Cur EXCEPT !.pollTimers = @ (-) One(t)]
                s2 == QuotaPollMessages(s0, t.ret)
            IN (isRunning /\ liveChatId # NULL /\ ~canMakeApiCall(s0, PollCost).ok) =>
                  /\ ~s2.isRunning
                  /\ s2.pollTimers = s0.pollTimers /\ s2.fetches = fetches
                  /\ s2.videoId = videoId /\ s2.liveChatId = liveChatId
                  /\ s2.nextPageToken = nextPageToken
                  /\ s2.dailyQuotaUsed = dailyQuotaUsed

C30_Stopped == ~isRunning /\ videoId = "v1" /\ liveChatId = "c1"

C30_Resumed ==
    /\ isRunning /\ videoId = "v1" /\ liveChatId = "c1"
    /\ quotaResetTime = 2 * DayMs

C30_ResumesAfterReset == []C30_RefusalKeepsSession /\ (C30_Stopped ~> C30_Resumed)

\* after midnight: the counter holds the search and the chat-id lookup of the
\* tick that found the stopped session, and polling goes on
C30_Witness ==
    /\ variant = "quota"
    /\ now = DayMs
    /\ dailyQuotaUsed = SearchCost + ChatIdCost
    /\ isRunning /\ videoId = "v1" /\ liveChatId = "c1"
    /\ fetches # EmptyBag

====
